---- MODULE Spec2Model ----
(***************************************************************************)
(* Emergency reporting: the submission policy of reportService             *)
(* (checkCooldown, submitEmergencyReport), the admin report list           *)
(* (ReportList: handleRespond, initiateAction) and the admin device panel  *)
(* (DevicePanel: handleBlock, handleUnblock), all acting on one hosted     *)
(* store with the two collections devices/{deviceId} and reports/{id}.     *)
(*                                                                         *)
(* Every await of the source is a step boundary: other clients' store      *)
(* operations may land between two steps of one handler.  A multi-path     *)
(* update is one step.  Report fields type and description are carried     *)
(* through unchanged by every operation and are left out of the records.   *)
(*                                                                         *)
(* A client sees its own write at once (the local value event of the       *)
(* store client); another client's list or table changes only when its     *)
(* snapshot is delivered.  The list's status and type filters only hide    *)
(* rows and are left out.  Home's disabled submit button follows the       *)
(* polled checkCooldown answer and is not a guard of the service call.     *)
(* The variables accepted, origin and resolvedAtBlock, and the field       *)
(* after of cc, are history: no action's guard or store write reads them.  *)
(*                                                                         *)
(* Admin's switching between its views, and the value listeners the views  *)
(* register and remove, are the subject of SpecViews; the other            *)
(* specifications take the list or panel an admin uses as displayed and    *)
(* subscribed throughout.  The reports DevicePanel joins to its rows come  *)
(* through those listeners, so table changes in SpecViews only.  The sort  *)
(* of the rows (by lastReportTime) changes no row and is left out.         *)
(***************************************************************************)
EXTENDS Integers, Sequences, FiniteSets, TLC

VARIABLES
  now,        \* wall clock in milliseconds (Date.now())
  ticks,      \* number of clock advances so far (bounds the exploration)
  storage,    \* localStorage["deviceId"] of each browser
  devices,    \* store: devices/{deviceId}
  reports,    \* store: reports/{id}; push keys are chronological, id = index
  sub,        \* per tab: the submitEmergencyReport call of Home.handleSubmit
  cc,         \* per tab: the checkCooldown call of Home.checkCooldownStatus
              \* (after: history, the device's latest accepted time when the call began)
  accepted,   \* history: per device, the latest timestamp of a submission that returned normally
  origin,     \* history: per report id, the cooldownUntil its submission read (0 when no record)
  resolvedAtBlock, \* history: the reports that were resolved when a block sweep rewrote them
  view,       \* per admin: ReportList's reports state (in-memory list)
  confirm,    \* per admin: ReportList's isConfirmingAction
  panel,      \* per admin: what DevicePanel's devices state shows of each device
  blk,        \* per admin: the handleBlock / handleUnblock call in flight
              \* (before: history, the device record when the handler was invoked)
  activeView, \* per admin: Admin's activeView
  listeners,  \* per admin: the value listeners its ReportList and DevicePanel hold
  table       \* per admin: DevicePanel's devices state, the reports joined to each device

mounts == <<activeView, listeners, table>>

vars == <<now, ticks, storage, devices, reports, sub, cc, accepted, origin,
          resolvedAtBlock, view, confirm, panel, blk, activeView, listeners, table>>

----------------------------------------------------------------------------
(* Program constant and bounds *)

COOLDOWN_DURATION == 5000

MaxReports == 2
MaxTicks == 2
MaxTriageTicks == 1
MaxCounted == 3
MaxListeners == 2

Browsers == {"b1", "b2"}
Tabs == {"t1", "t2", "t3"}
BrowserOf(t) == IF t = "t3" THEN "b2" ELSE "b1"
UUIDs == {"d1", "d2"}
Admins == {"a1", "a2"}
Views == {"map", "reports", "devices"}

NoId == "none"
NoDevice == [exists |-> FALSE]
NoTime == -1
NoLocation == "null"
Locations == {"loc"}

----------------------------------------------------------------------------
(* Pure helpers *)

\* Math.ceil(x / d) for integers x and d > 0
Ceil(x, d) == -((-x) \div d)

\* the remaining time rounded down instead of up
RemainingSecondsBad(cooldownUntil, t) == (cooldownUntil - t) \div 1000

\* line 16: Math.ceil((cooldownUntil - now) / 1000)
RemainingSeconds(cooldownUntil, t) == Ceil(cooldownUntil - t, 1000)

\* line 42: Math.ceil((cooldownUntil - now) / 60000)
WaitMin(cooldownUntil, t) == Ceil(cooldownUntil - t, 60000)

\* a cooldown that still holds at the instant it runs out
CooldownActiveBad(t, cooldownUntil) == t <= cooldownUntil

\* lines 15 and 40: now < cooldownUntil
CooldownActive(t, cooldownUntil) == t < cooldownUntil

\* a getDeviceId that returns a fresh id without persisting it
GetDeviceIdNotPersisted(b, fresh) ==
  [id |-> IF storage[b] = NoId THEN fresh ELSE storage[b], storage |-> storage]

\* getDeviceId: the persisted id, or a fresh random one that is persisted
GetDeviceId(b, fresh) ==
  IF storage[b] = NoId
    THEN [id |-> fresh, storage |-> [storage EXCEPT ![b] = fresh]]
    ELSE [id |-> storage[b], storage |-> storage]

\* crypto.randomUUID(): any identifier no browser holds yet
FreshIds == UUIDs \ {storage[b] : b \in Browsers}

\* the identifiers getDeviceId may return in browser b
IdChoices(b) == IF storage[b] = NoId THEN FreshIds ELSE {storage[b]}

Max(a, b) == IF a >= b THEN a ELSE b

----------------------------------------------------------------------------
(* Initial state: empty store, no identifier persisted, every view empty *)

IdleSub == [pc |-> "idle", deviceId |-> NoId, now |-> 0, snap |-> NoDevice,
            result |-> "none", waitMin |-> 0]
IdleCc == [pc |-> "idle", deviceId |-> NoId, now |-> 0, after |-> NoTime,
           onCooldown |-> FALSE, remainingSeconds |-> 0]
IdleBlk == [pc |-> "idle", op |-> "none", deviceId |-> NoId, updates |-> {},
            outcome |-> "none", before |-> NoDevice]
NoConfirm == [reportId |-> 0, action |-> "none"]
NotSeen == [delivered |-> FALSE, value |-> << >>]
NoListeners == [reportList |-> 0, unsubscribeReports |-> 0, unsubscribeDevices |-> 0,
                seen |-> NotSeen, reportsData |-> << >>]
NoRow == [listed |-> FALSE, device |-> NoDevice, reports |-> << >>, totalReports |-> 0]
NoTable == [d \in UUIDs |-> NoRow]

Init ==
  /\ now = 0
  /\ ticks = 0
  /\ storage = [b \in Browsers |-> NoId]
  /\ devices = [d \in UUIDs |-> NoDevice]
  /\ reports = << >>
  /\ sub = [t \in Tabs |-> IdleSub]
  /\ cc = [t \in Tabs |-> IdleCc]
  /\ accepted = [d \in UUIDs |-> NoTime]
  /\ origin = << >>
  /\ resolvedAtBlock = {}
  /\ view = [a \in Admins |-> << >>]
  /\ confirm = [a \in Admins |-> NoConfirm]
  /\ panel = [a \in Admins |-> [d \in UUIDs |-> "absent"]]
  /\ blk = [a \in Admins |-> IdleBlk]
  /\ activeView = [a \in Admins |-> "map"]
  /\ listeners = [a \in Admins |-> NoListeners]
  /\ table = [a \in Admins |-> NoTable]

----------------------------------------------------------------------------
(* The clock *)

Tick(d) ==
  /\ now' = now + d
  /\ ticks' = ticks + 1
  /\ UNCHANGED <<mounts, storage, devices, reports, sub, cc, accepted, origin,
                 view, confirm, panel, blk, resolvedAtBlock>>

----------------------------------------------------------------------------
(* reportService.checkCooldown, called by Home.checkCooldownStatus *)

\* lines 8-12: getDeviceId(), Date.now(), then the read is issued
CheckStart(t, fresh) ==
  /\ cc[t].pc = "idle"
  /\ fresh \in IdChoices(BrowserOf(t))
  /\ LET g == GetDeviceId(BrowserOf(t), fresh) IN
       /\ storage' = g.storage
       /\ cc' = [cc EXCEPT ![t] = [pc |-> "get", deviceId |-> g.id, now |-> now,
                                   after |-> accepted[g.id],
                                   onCooldown |-> @.onCooldown,
                                   remainingSeconds |-> @.remainingSeconds]]
  /\ UNCHANGED <<mounts, now, ticks, devices, reports, sub, accepted, origin,
                 view, confirm, panel, blk, resolvedAtBlock>>

\* lines 13-20: the value checkCooldown returns for the record it read
CheckResult(snap, t) ==
  IF snap.exists /\ CooldownActive(t, snap.cooldownUntil)
    THEN [onCooldown |-> TRUE,
          remainingSeconds |-> RemainingSeconds(snap.cooldownUntil, t)]
    ELSE [onCooldown |-> FALSE, remainingSeconds |-> 0]

\* lines 12-20: the read resolves; Home stores the answer (lines 16-18 of Home)
CheckGet(t) ==
  /\ cc[t].pc = "get"
  /\ LET r == CheckResult(devices[cc[t].deviceId], cc[t].now) IN
       cc' = [cc EXCEPT ![t] = [pc |-> "idle", deviceId |-> NoId, now |-> 0,
                                after |-> NoTime,
                                onCooldown |-> r.onCooldown,
                                remainingSeconds |-> r.remainingSeconds]]
  /\ UNCHANGED <<mounts, now, ticks, storage, devices, reports, sub, accepted, origin,
                 view, confirm, panel, blk, resolvedAtBlock>>

----------------------------------------------------------------------------
(* reportService.submitEmergencyReport, called by Home.handleSubmit *)

\* lines 28-33: getDeviceId(), Date.now(), then the read is issued.
\* Home disables the button while a submission of the tab is in flight.
SubmitStart(t, fresh) ==
  /\ sub[t].pc = "idle"
  /\ fresh \in IdChoices(BrowserOf(t))
  /\ LET g == GetDeviceId(BrowserOf(t), fresh) IN
       /\ storage' = g.storage
       /\ sub' = [sub EXCEPT ![t] = [pc |-> "get", deviceId |-> g.id, now |-> now,
                                     snap |-> NoDevice, result |-> "none",
                                     waitMin |-> 0]]
  /\ UNCHANGED <<mounts, now, ticks, devices, reports, cc, accepted, origin,
                 view, confirm, panel, blk, resolvedAtBlock>>

\* the cooldown check placed before the blocked check
DecideCooldownFirst(snap, t) ==
  IF snap.exists /\ CooldownActive(t, snap.cooldownUntil)
    THEN [result |-> "OnCooldown", waitMin |-> WaitMin(snap.cooldownUntil, t)]
  ELSE IF snap.exists /\ snap.isBlocked
    THEN [result |-> "DeviceBlocked", waitMin |-> 0]
  ELSE [result |-> "Accept", waitMin |-> 0]

\* the cooldown check left out
DecideNoCooldown(snap, t) ==
  IF snap.exists /\ snap.isBlocked
    THEN [result |-> "DeviceBlocked", waitMin |-> 0]
    ELSE [result |-> "Accept", waitMin |-> 0]

\* lines 34-45: the policy decision on the record that was read
Decide(snap, t) ==
  IF snap.exists /\ snap.isBlocked
    THEN [result |-> "DeviceBlocked", waitMin |-> 0]
  ELSE IF snap.exists /\ CooldownActive(t, snap.cooldownUntil)
    THEN [result |-> "OnCooldown", waitMin |-> WaitMin(snap.cooldownUntil, t)]
  ELSE [result |-> "Accept", waitMin |-> 0]

Finished(res, w) ==
  [pc |-> "idle", deviceId |-> NoId, now |-> 0, snap |-> NoDevice,
   result |-> res, waitMin |-> w]

\* a submission whose refusal is counted in the device record
SubmitGetCountsRefusal(t, ok) ==
  /\ sub[t].pc = "get"
  /\ LET snap == devices[sub[t].deviceId]
         d == Decide(snap, sub[t].now) IN
       /\ sub' = [sub EXCEPT ![t] =
                    IF ~ok THEN Finished("StoreFailed", 0)
                    ELSE IF d.result = "Accept"
                      THEN [@ EXCEPT !.pc = "push", !.snap = snap]
                    ELSE Finished(d.result, d.waitMin)]
       /\ devices' = IF ok /\ d.result # "Accept"
                       THEN [devices EXCEPT ![sub[t].deviceId].totalReports = @ + 1]
                       ELSE devices
  /\ UNCHANGED <<mounts, now, ticks, storage, reports, cc, accepted, origin,
                 view, confirm, panel, blk, resolvedAtBlock>>

\* lines 33-45: the read resolves (or rejects) and the policy checks run
SubmitGet(t, ok) ==
  /\ sub[t].pc = "get"
  /\ LET snap == devices[sub[t].deviceId]
         d == Decide(snap, sub[t].now) IN
       sub' = [sub EXCEPT ![t] =
                 IF ~ok THEN Finished("StoreFailed", 0)
                 ELSE IF d.result = "Accept"
                   THEN [@ EXCEPT !.pc = "push", !.snap = snap]
                 ELSE Finished(d.result, d.waitMin)]
  /\ UNCHANGED <<mounts, now, ticks, storage, devices, reports, cc, accepted, origin,
                 view, confirm, panel, blk, resolvedAtBlock>>

\* lines 49-54: the record pushed to reports
NewReport(deviceId, t, location) ==
  [deviceId |-> deviceId, timestamp |-> t, status |-> "active",
   location |-> location, responseTime |-> NoTime, id |-> 0]

\* lines 48-54: the push lands (or rejects)
SubmitPush(t, location, ok) ==
  /\ sub[t].pc = "push"
  /\ IF ok
       THEN /\ reports' = Append(reports, NewReport(sub[t].deviceId, sub[t].now, location))
            /\ origin' = Append(origin, IF sub[t].snap.exists
                                          THEN sub[t].snap.cooldownUntil ELSE 0)
            /\ sub' = [sub EXCEPT ![t].pc = "set"]
       ELSE /\ sub' = [sub EXCEPT ![t] = Finished("StoreFailed", 0)]
            /\ UNCHANGED <<reports, origin, resolvedAtBlock>>
  /\ UNCHANGED <<mounts, now, ticks, storage, devices, cc, accepted,
                 view, confirm, panel, blk, resolvedAtBlock>>

\* an upsert that counts the cooldown from the last report time it read
DeviceUpsertOldCooldown(snap, t) ==
  [exists |-> TRUE,
   lastReportTime |-> t,
   totalReports |-> (IF snap.exists THEN snap.totalReports ELSE 0) + 1,
   cooldownUntil |-> (IF snap.exists THEN snap.lastReportTime ELSE t) + COOLDOWN_DURATION,
   isBlocked |-> IF snap.exists THEN snap.isBlocked ELSE FALSE,
   blockedAt |-> NoTime]

\* lines 57-62: the record set at devices/{deviceId}, replacing what is there
DeviceUpsert(snap, t) ==
  [exists |-> TRUE,
   lastReportTime |-> t,
   totalReports |-> (IF snap.exists THEN snap.totalReports ELSE 0) + 1,
   cooldownUntil |-> t + COOLDOWN_DURATION,
   isBlocked |-> IF snap.exists THEN snap.isBlocked ELSE FALSE,
   blockedAt |-> NoTime]

\* lines 57-63: the set lands (or rejects) and the call returns
SubmitSet(t, ok) ==
  /\ sub[t].pc = "set"
  /\ LET d == sub[t].deviceId IN
       IF ok
         THEN /\ devices' = [devices EXCEPT ![d] = DeviceUpsert(sub[t].snap, sub[t].now)]
              /\ accepted' = [accepted EXCEPT ![d] = Max(@, sub[t].now)]
              /\ sub' = [sub EXCEPT ![t] = Finished("Ok", 0)]
         ELSE /\ sub' = [sub EXCEPT ![t] = Finished("StoreFailed", 0)]
              /\ UNCHANGED <<devices, accepted, resolvedAtBlock>>
  /\ UNCHANGED <<mounts, now, ticks, storage, reports, cc, origin,
                 view, confirm, panel, blk, resolvedAtBlock>>

----------------------------------------------------------------------------
(* ReportList: the live list and the respond / resolve cascade *)

\* lines 115-117: position of key k after the stable sort by timestamp, newest first
SortedPos(rs, k) ==
  1 + Cardinality({j \in 1..Len(rs) :
                     \/ rs[j].timestamp > rs[k].timestamp
                     \/ rs[j].timestamp = rs[k].timestamp /\ j < k})

\* lines 113-121: the list built from a snapshot of the reports collection
ReportsArray(rs) ==
  [p \in 1..Len(rs) |->
     LET k == CHOOSE j \in 1..Len(rs) : SortedPos(rs, j) = p
     IN  [rs[k] EXCEPT !.id = k]]

\* lines 112-122: a snapshot of the reports collection is delivered to the list
ReportListSnapshot(a) ==
  /\ view[a] # ReportsArray(reports)
  /\ view' = [view EXCEPT ![a] = ReportsArray(reports)]
  /\ UNCHANGED <<mounts, now, ticks, storage, devices, reports, sub, cc, accepted, origin,
                 confirm, panel, blk, resolvedAtBlock>>

InView(v, reportId) == \E p \in 1..Len(v) : v[p].id = reportId
Find(v, reportId) == v[CHOOSE p \in 1..Len(v) : v[p].id = reportId]

\* a cascade that takes the active reports only, whatever the action
EligibleActiveOnly(r, status) == r.status = "active"

\* lines 136 and 168: whether the cascade to `status` takes a report in
Eligible(r, status) ==
  IF status = "responded" THEN r.status = "active"
                          ELSE r.status \in {"active", "responded"}

\* lines 134-137 and 166-169: the reports of the list the cascade selects
RelatedReports(v, reportId, status) ==
  IF ~InView(v, reportId) THEN {}
  ELSE {v[p] : p \in {q \in 1..Len(v) :
                        /\ v[q].deviceId = Find(v, reportId).deviceId
                        /\ Eligible(v[q], status)}}

\* a resolve that leaves the location in the record
UpdatedReportKeepsLocation(r, status, t) ==
  [r EXCEPT !.status = status, !.responseTime = t - r.timestamp]

\* lines 142-147: the record written at reports/{r.id}
UpdatedReport(r, status, t) ==
  [r EXCEPT !.status = status,
            !.responseTime = t - r.timestamp,
            !.location = IF status = "resolved" THEN NoLocation ELSE @]

\* lines 140-148: the multi-path update, keyed by report id
Updates(v, reportId, status, t) ==
  LET rel == RelatedReports(v, reportId, status) IN
  [k \in {r.id : r \in rel} |->
     UpdatedReport(CHOOSE r \in rel : r.id = k, status, t)]

\* a write that lands on the first of the paths only
ApplyUpdatesFirstPath(rs, ups) ==
  [k \in 1..Len(rs) |->
     IF k \in DOMAIN ups /\ \A j \in DOMAIN ups : k <= j THEN ups[k] ELSE rs[k]]

\* line 150: update(ref(db), updates) replaces every path named, all at once
ApplyUpdates(rs, ups) ==
  [k \in 1..Len(rs) |-> IF k \in DOMAIN ups THEN ups[k] ELSE rs[k]]

StatusOf(action) == IF action = "respond" THEN "responded" ELSE "resolved"

\* lines 112-118: the admin's own list after the value event its own write raises
\* (the records written carry the list's id, and no timestamp changes, so the
\* order of the list stays)
ApplyToList(v, ups) ==
  [p \in 1..Len(v) |-> IF v[p].id \in DOMAIN ups THEN ups[v[p].id] ELSE v[p]]

\* lines 126-160: handleRespond; the write lands (ok) or is rejected
HandleRespond(a, reportId, status, ok) ==
  /\ IF InView(view[a], reportId) /\ ok
       THEN LET ups == Updates(view[a], reportId, status, now) IN
            /\ reports' = ApplyUpdates(reports, ups)
            /\ view' = [view EXCEPT ![a] = ApplyToList(@, ups)]
       ELSE UNCHANGED <<reports, view>>
  /\ confirm' = [confirm EXCEPT ![a] = NoConfirm]
  /\ UNCHANGED <<mounts, now, ticks, storage, devices, sub, cc, accepted, origin,
                 panel, blk, resolvedAtBlock>>

\* lines 193-242: the buttons renderActionButtons shows on a report of the list
ShowsButtons(a, r) == r.status # "resolved"
ShowsConfirm(a, r) == ShowsButtons(a, r) /\ confirm[a].reportId = r.id
ShowsAction(a, r, action) ==
  /\ ShowsButtons(a, r)
  /\ confirm[a].reportId # r.id
  /\ action = "respond" => r.status = "active"

\* a confirmation asked only from three reports on
NeedsConfirmBad(n) == n > 2

\* line 171: whether the cascade needs the confirmation step
NeedsConfirm(n) == n > 1

\* lines 162-176: initiateAction, from "Mark Responded" or "Resolve"
InitiateAction(a, reportId, action, ok) ==
  /\ InView(view[a], reportId)
  /\ ShowsAction(a, Find(view[a], reportId), action)
  /\ IF NeedsConfirm(Cardinality(RelatedReports(view[a], reportId, StatusOf(action))))
       THEN /\ ok
            /\ confirm' = [confirm EXCEPT ![a] = [reportId |-> reportId, action |-> action]]
            /\ UNCHANGED <<mounts, now, ticks, storage, devices, reports, sub, cc, accepted,
                           origin, view, panel, blk, resolvedAtBlock>>
       ELSE HandleRespond(a, reportId, StatusOf(action), ok)

\* lines 206-214: "Yes" of the confirmation prompt
ConfirmYes(a, ok) ==
  /\ InView(view[a], confirm[a].reportId)
  /\ ShowsConfirm(a, Find(view[a], confirm[a].reportId))
  /\ HandleRespond(a, confirm[a].reportId, StatusOf(confirm[a].action), ok)

\* lines 215-220: "No" of the confirmation prompt
ConfirmNo(a) ==
  /\ InView(view[a], confirm[a].reportId)
  /\ ShowsConfirm(a, Find(view[a], confirm[a].reportId))
  /\ confirm' = [confirm EXCEPT ![a] = NoConfirm]
  /\ UNCHANGED <<mounts, now, ticks, storage, devices, reports, sub, cc, accepted, origin,
                 view, panel, blk, resolvedAtBlock>>

----------------------------------------------------------------------------
(* DevicePanel: the device table and block / unblock *)

\* lines 40-51 and 205-220: what a table row shows of its device
RowOf(dev) ==
  IF ~dev.exists THEN "absent"
  ELSE IF dev.isBlocked THEN "blocked" ELSE "active"

\* a row that shows the stored counter of the device
DeviceWithStoredCounter(id, device, reportsData) ==
  LET Of(r) == r.deviceId = id
      deviceReports == SelectSeq(reportsData, Of)
  IN  [listed |-> TRUE, device |-> device, reports |-> deviceReports,
       totalReports |-> device.totalReports]

\* lines 40-50: the row of device id: its record, the reports of reportsData with
\* its deviceId, and their number in place of the stored totalReports
DeviceWithReports(id, device, reportsData) ==
  LET Of(r) == r.deviceId = id
      deviceReports == SelectSeq(reportsData, Of)
  IN  [listed |-> TRUE, device |-> device, reports |-> deviceReports,
       totalReports |-> Len(deviceReports)]

\* lines 38-51: one row for every record of the devices snapshot
DevicesArray(devicesData, reportsData) ==
  [d \in UUIDs |-> IF devicesData[d].exists
                     THEN DeviceWithReports(d, devicesData[d], reportsData)
                     ELSE NoRow]

\* lines 37-54: a devices snapshot reaches every devices listener of the panel, in
\* the order they were registered; each calls setDevices with the rows it builds
\* from the reports it closed over (line 34)
RECURSIVE AfterDevicesEvent(_, _, _)
AfterDevicesEvent(tbl, devicesData, closures) ==
  IF closures = << >> THEN tbl
  ELSE AfterDevicesEvent(DevicesArray(devicesData, Head(closures)), devicesData,
                         Tail(closures))

\* lines 37-54: a devices snapshot is delivered and the rows are rebuilt
PanelSnapshot(a) ==
  LET rows == [d \in UUIDs |-> RowOf(devices[d])]
      tbl == AfterDevicesEvent(table[a], devices, listeners[a].reportsData) IN
  /\ panel[a] # rows \/ table[a] # tbl
  /\ panel' = [panel EXCEPT ![a] = rows]
  /\ table' = [table EXCEPT ![a] = tbl]
  /\ UNCHANGED <<activeView, listeners, now, ticks, storage, devices, reports, sub, cc,
                 accepted, origin, view, confirm, blk, resolvedAtBlock>>

\* lines 74-77: update(devices/{id}, {isBlocked: true, blockedAt: Date.now()})
BlockedDevice(dev, t) == [dev EXCEPT !.isBlocked = TRUE, !.blockedAt = t]

\* lines 106-110: update(devices/{id}, {isBlocked: false, blockedAt: null, blockReason: null})
UnblockedDevice(dev) == [dev EXCEPT !.isBlocked = FALSE, !.blockedAt = NoTime]

\* a handleBlock whose device write lands although the store reports a failure
BlockDeviceWritesOnFailure(a, d, ok) ==
  /\ blk[a].pc = "idle"
  /\ panel[a][d] = "active"
  /\ devices' = [devices EXCEPT ![d] = BlockedDevice(@, now)]
  /\ panel' = [panel EXCEPT ![a][d] = "blocked"]
  /\ blk' = [blk EXCEPT ![a] =
               IF ok THEN [pc |-> "get", op |-> "block", deviceId |-> d,
                           updates |-> {}, outcome |-> "none", before |-> devices[d]]
                     ELSE [IdleBlk EXCEPT !.outcome = "failed"]]
  /\ UNCHANGED <<mounts, now, ticks, storage, reports, sub, cc, accepted, origin,
                 view, confirm, resolvedAtBlock>>

\* lines 72-77: handleBlock is invoked from a row showing "Block"; the device write
\* lands, and the admin's own table shows it (lines 37-54, the value event of the write)
BlockDevice(a, d, ok) ==
  /\ blk[a].pc = "idle"
  /\ panel[a][d] = "active"
  /\ IF ok
       THEN /\ devices' = [devices EXCEPT ![d] = BlockedDevice(@, now)]
            /\ panel' = [panel EXCEPT ![a][d] = "blocked"]
            /\ blk' = [blk EXCEPT ![a] = [pc |-> "get", op |-> "block", deviceId |-> d,
                                          updates |-> {}, outcome |-> "none",
                                          before |-> devices[d]]]
       ELSE /\ blk' = [blk EXCEPT ![a] = [IdleBlk EXCEPT !.outcome = "failed"]]
            /\ UNCHANGED <<devices, panel>>
  /\ UNCHANGED <<mounts, now, ticks, storage, reports, sub, cc, accepted, origin,
                 view, confirm, resolvedAtBlock>>

\* lines 104-110: handleUnblock is invoked from a row showing "Unblock"; the device
\* write lands, and the admin's own table shows it
UnblockDevice(a, d, ok) ==
  /\ blk[a].pc = "idle"
  /\ panel[a][d] = "blocked"
  /\ IF ok
       THEN /\ devices' = [devices EXCEPT ![d] = UnblockedDevice(@)]
            /\ panel' = [panel EXCEPT ![a][d] = "active"]
            /\ blk' = [blk EXCEPT ![a] = [pc |-> "get", op |-> "unblock", deviceId |-> d,
                                          updates |-> {}, outcome |-> "none",
                                          before |-> devices[d]]]
       ELSE /\ blk' = [blk EXCEPT ![a] = [IdleBlk EXCEPT !.outcome = "failed"]]
            /\ UNCHANGED <<devices, panel>>
  /\ UNCHANGED <<mounts, now, ticks, storage, reports, sub, cc, accepted, origin,
                 view, confirm, resolvedAtBlock>>

\* lines 85-89: the report paths handleBlock's sweep names
BlockSweepIds(rs, d) == {k \in 1..Len(rs) : rs[k].deviceId = d}

\* lines 118-122: the report paths handleUnblock's sweep names
UnblockSweepIds(rs, d) ==
  {k \in 1..Len(rs) : rs[k].deviceId = d /\ rs[k].status = "blocked"}

\* lines 80-91 and 113-124: the reports collection is read and the sweep prepared;
\* with nothing to sweep the handler ends here (lines 96 and 129)
SweepRead(a, ok) ==
  /\ blk[a].pc = "get"
  /\ LET ids == IF blk[a].op = "block"
                  THEN BlockSweepIds(reports, blk[a].deviceId)
                  ELSE UnblockSweepIds(reports, blk[a].deviceId) IN
       blk' = [blk EXCEPT ![a] =
                 IF ~ok THEN [IdleBlk EXCEPT !.outcome = "failed"]
                 ELSE IF ids = {} THEN [IdleBlk EXCEPT !.outcome = "success"]
                 ELSE [@ EXCEPT !.pc = "sweep", !.updates = ids]]
  /\ UNCHANGED <<mounts, now, ticks, storage, devices, reports, sub, cc, accepted, origin,
                 view, confirm, panel, resolvedAtBlock>>

\* lines 87 and 120: reports/{id}/status is the only path written
SweepStatus(op) == IF op = "block" THEN "blocked" ELSE "active"

\* lines 92 and 125: update(ref(db), updates) on the status paths, all at once
ApplySweep(rs, ids, status) ==
  [k \in 1..Len(rs) |-> IF k \in ids THEN [rs[k] EXCEPT !.status = status] ELSE rs[k]]

\* lines 91-96 and 124-129: the sweep lands (or is rejected) and the handler ends
SweepWrite(a, ok) ==
  /\ blk[a].pc = "sweep"
  /\ IF ok
       THEN /\ reports' = ApplySweep(reports, blk[a].updates, SweepStatus(blk[a].op))
            /\ resolvedAtBlock' =
                 IF blk[a].op = "block"
                   THEN resolvedAtBlock \cup
                          {k \in blk[a].updates : reports[k].status = "resolved"}
                   ELSE resolvedAtBlock
            /\ blk' = [blk EXCEPT ![a] = [IdleBlk EXCEPT !.outcome = "success"]]
       ELSE /\ blk' = [blk EXCEPT ![a] = [IdleBlk EXCEPT !.outcome = "failed"]]
            /\ UNCHANGED <<reports, resolvedAtBlock>>
  /\ UNCHANGED <<mounts, now, ticks, storage, devices, sub, cc, accepted, origin,
                 view, confirm, panel>>

----------------------------------------------------------------------------
(* Admin: the view on display, and the listeners of ReportList and DevicePanel *)

\* ReportList lines 123 and DevicePanel lines 61-63: the cleanup run when the view
\* `old` is unmounted; DevicePanel's removes the reports listener only (the cleanup
\* returned inside the reports callback, lines 56-58, is returned to the store
\* client, which ignores it); the devices listeners left behind call the setDevices
\* of the panel that is gone, so reportsData keeps the closures of the panel on
\* display only
Unmounted(l, old) ==
  IF old = "reports" THEN [l EXCEPT !.reportList = 0]
  ELSE IF old = "devices" THEN [l EXCEPT !.unsubscribeReports = 0, !.seen = NotSeen,
                                         !.reportsData = << >>]
  ELSE l

\* ReportList lines 111-112 and DevicePanel lines 29-33: the listener the view v
\* registers on the reports collection when it is mounted
Mounted(l, v) ==
  IF v = "reports" THEN [l EXCEPT !.reportList = 1]
  ELSE IF v = "devices" THEN [l EXCEPT !.unsubscribeReports = 1, !.seen = NotSeen]
  ELSE l

\* Admin lines 292-317: setActiveView(v) unmounts the view on display, whose state
\* is dropped, and mounts v with its initial state
SetActiveView(a, v) ==
  /\ v \in Views
  /\ v # activeView[a]
  /\ activeView' = [activeView EXCEPT ![a] = v]
  /\ listeners' = [listeners EXCEPT ![a] = Mounted(Unmounted(@, activeView[a]), v)]
  /\ view' = [view EXCEPT ![a] = << >>]
  /\ confirm' = [confirm EXCEPT ![a] = NoConfirm]
  /\ panel' = [panel EXCEPT ![a] = [d \in UUIDs |-> "absent"]]
  /\ table' = [table EXCEPT ![a] = NoTable]
  /\ UNCHANGED <<now, ticks, storage, devices, reports, sub, cc, accepted, origin,
                 blk, resolvedAtBlock>>

\* DevicePanel lines 33-54: the reports listener is called with a snapshot (the
\* first one, or a changed collection) and registers one more devices listener,
\* closing over the snapshot; the new listener is called at once with the devices
\* the panel was last given, if any, and rebuilds the rows
PanelReportsEvent(a) ==
  /\ listeners[a].unsubscribeReports = 1
  /\ listeners[a].seen # [delivered |-> TRUE, value |-> reports]
  /\ listeners' = [listeners EXCEPT ![a] =
                     [@ EXCEPT !.unsubscribeDevices = @ + 1,
                               !.seen = [delivered |-> TRUE, value |-> reports],
                               !.reportsData = Append(@, reports)]]
  /\ table' = [table EXCEPT ![a] =
                 DevicesArray([d \in UUIDs |-> table[a][d].device], reports)]
  /\ UNCHANGED <<now, ticks, storage, devices, reports, sub, cc, accepted, origin,
                 view, confirm, panel, blk, resolvedAtBlock, activeView>>

----------------------------------------------------------------------------
(* Specifications *)

\* the exploration is bounded by the number of reports pushed or about to be,
\* and by the number of clock advances
InFlightBeforePush == {t \in Tabs : sub[t].pc \in {"get", "push"}}
RoomFor(n) == Len(reports) + Cardinality(InFlightBeforePush) < n

\* submission policy and cooldown: two tabs of one browser, one of them polling
NextCooldown ==
  \/ ticks < MaxTicks /\ \E d \in {1, 4999} : Tick(d)
  \/ \E t \in {"t1"}, f \in {"d1"} : CheckStart(t, f)
  \/ \E t \in {"t1"} : CheckGet(t)
  \/ RoomFor(MaxReports) /\ \E t \in {"t1", "t2"}, f \in {"d1"} : SubmitStart(t, f)
  \/ \E t \in {"t1", "t2"}, ok \in BOOLEAN : SubmitGet(t, ok)
  \/ \E t \in {"t1", "t2"}, l \in Locations, ok \in BOOLEAN : SubmitPush(t, l, ok)
  \/ \E t \in {"t1", "t2"}, ok \in BOOLEAN : SubmitSet(t, ok)

SpecCooldown == Init /\ [][NextCooldown]_vars

\* submissions of two browsers against one admin's device panel
NextBlock ==
  \/ ticks < MaxTicks /\ \E d \in {COOLDOWN_DURATION} : Tick(d)
  \/ RoomFor(MaxReports) /\ \E t \in {"t1"}, f \in {"d1"} : SubmitStart(t, f)
  \/ RoomFor(MaxReports) /\ \E t \in {"t3"}, f \in {"d2"} : SubmitStart(t, f)
  \/ \E t \in {"t1", "t3"} : SubmitGet(t, TRUE)
  \/ \E t \in {"t1", "t3"}, l \in Locations : SubmitPush(t, l, TRUE)
  \/ \E t \in {"t1", "t3"} : SubmitSet(t, TRUE)
  \/ \E a \in {"a1"} : PanelSnapshot(a)
  \/ \E a \in {"a1"}, d \in UUIDs, ok \in BOOLEAN : BlockDevice(a, d, ok)
  \/ \E a \in {"a1"}, d \in UUIDs, ok \in BOOLEAN : UnblockDevice(a, d, ok)
  \/ \E a \in {"a1"}, ok \in BOOLEAN : SweepRead(a, ok)
  \/ \E a \in {"a1"}, ok \in BOOLEAN : SweepWrite(a, ok)

SpecBlock == Init /\ [][NextBlock]_vars

\* the report list of one admin over the reports of two browsers
NextTriage ==
  \/ ticks < MaxTriageTicks /\ \E d \in {COOLDOWN_DURATION} : Tick(d)
  \/ RoomFor(MaxReports) /\ \E t \in {"t1"}, f \in {"d1"} : SubmitStart(t, f)
  \/ RoomFor(MaxReports) /\ \E t \in {"t3"}, f \in {"d2"} : SubmitStart(t, f)
  \/ \E t \in {"t1", "t3"} : SubmitGet(t, TRUE)
  \/ \E t \in {"t1", "t3"}, l \in Locations : SubmitPush(t, l, TRUE)
  \/ \E t \in {"t1", "t3"} : SubmitSet(t, TRUE)
  \/ \E a \in {"a1"} : ReportListSnapshot(a)
  \/ \E a \in {"a1"}, k \in 1..Len(reports), act \in {"respond", "resolve"}, ok \in BOOLEAN :
       InitiateAction(a, k, act, ok)
  \/ \E a \in {"a1"}, ok \in BOOLEAN : ConfirmYes(a, ok)
  \/ \E a \in {"a1"} : ConfirmNo(a)

SpecTriage == Init /\ [][NextTriage]_vars

\* one admin's report list and another's device panel over one browser's reports
NextModeration ==
  \/ ticks < MaxTriageTicks /\ \E d \in {COOLDOWN_DURATION} : Tick(d)
  \/ RoomFor(MaxReports) /\ \E t \in {"t1"}, f \in {"d1"} : SubmitStart(t, f)
  \/ \E t \in {"t1"} : SubmitGet(t, TRUE)
  \/ \E t \in {"t1"}, l \in Locations : SubmitPush(t, l, TRUE)
  \/ \E t \in {"t1"} : SubmitSet(t, TRUE)
  \/ \E a \in {"a2"} : ReportListSnapshot(a)
  \/ \E a \in {"a2"}, k \in 1..Len(reports), act \in {"respond", "resolve"}, ok \in BOOLEAN :
       InitiateAction(a, k, act, ok)
  \/ \E a \in {"a2"}, ok \in BOOLEAN : ConfirmYes(a, ok)
  \/ \E a \in {"a2"} : ConfirmNo(a)
  \/ \E a \in {"a1"} : PanelSnapshot(a)
  \/ \E a \in {"a1"}, d \in UUIDs, ok \in BOOLEAN : BlockDevice(a, d, ok)
  \/ \E a \in {"a1"}, d \in UUIDs, ok \in BOOLEAN : UnblockDevice(a, d, ok)
  \/ \E a \in {"a1"}, ok \in BOOLEAN : SweepRead(a, ok)
  \/ \E a \in {"a1"}, ok \in BOOLEAN : SweepWrite(a, ok)

SpecModeration == Init /\ [][NextModeration]_vars

\* the report lists of two admins over one browser's reports
NextTwoLists ==
  \/ ticks < MaxTriageTicks /\ \E d \in {COOLDOWN_DURATION} : Tick(d)
  \/ RoomFor(MaxReports) /\ \E t \in {"t1"}, f \in {"d1"} : SubmitStart(t, f)
  \/ \E t \in {"t1"} : SubmitGet(t, TRUE)
  \/ \E t \in {"t1"}, l \in Locations : SubmitPush(t, l, TRUE)
  \/ \E t \in {"t1"} : SubmitSet(t, TRUE)
  \/ \E a \in {"a1", "a2"} : ReportListSnapshot(a)
  \/ \E a \in {"a1", "a2"}, k \in 1..Len(reports), act \in {"respond", "resolve"}, ok \in BOOLEAN :
       InitiateAction(a, k, act, ok)
  \/ \E a \in {"a1", "a2"}, ok \in BOOLEAN : ConfirmYes(a, ok)
  \/ \E a \in {"a1", "a2"} : ConfirmNo(a)

SpecTwoLists == Init /\ [][NextTwoLists]_vars

\* one admin's report list and another's device panel over the reports of two
\* tabs of one browser, whose submissions race while the clock stands
NextStore ==
  \/ RoomFor(MaxReports) /\ \E t \in {"t1", "t2"}, f \in {"d1"} : SubmitStart(t, f)
  \/ \E t \in {"t1", "t2"} : SubmitGet(t, TRUE)
  \/ \E t \in {"t1", "t2"}, l \in Locations : SubmitPush(t, l, TRUE)
  \/ \E t \in {"t1", "t2"} : SubmitSet(t, TRUE)
  \/ \E a \in {"a2"} : ReportListSnapshot(a)
  \/ \E a \in {"a2"}, k \in 1..Len(reports), act \in {"respond", "resolve"}, ok \in BOOLEAN :
       InitiateAction(a, k, act, ok)
  \/ \E a \in {"a2"}, ok \in BOOLEAN : ConfirmYes(a, ok)
  \/ \E a \in {"a2"} : ConfirmNo(a)
  \/ \E a \in {"a1"} : PanelSnapshot(a)
  \/ \E a \in {"a1"}, d \in UUIDs, ok \in BOOLEAN : BlockDevice(a, d, ok)
  \/ \E a \in {"a1"}, d \in UUIDs, ok \in BOOLEAN : UnblockDevice(a, d, ok)
  \/ \E a \in {"a1"}, ok \in BOOLEAN : SweepRead(a, ok)
  \/ \E a \in {"a1"}, ok \in BOOLEAN : SweepWrite(a, ok)

SpecStore == Init /\ [][NextStore]_vars

\* the device record under the submissions of two tabs of one browser
NextCounter ==
  \/ ticks < MaxTriageTicks /\ \E d \in {COOLDOWN_DURATION} : Tick(d)
  \/ RoomFor(MaxCounted) /\ \E t \in {"t1", "t2"}, f \in {"d1"} : SubmitStart(t, f)
  \/ \E t \in {"t1", "t2"} : SubmitGet(t, TRUE)
  \/ \E t \in {"t1", "t2"}, l \in Locations : SubmitPush(t, l, TRUE)
  \/ \E t \in {"t1", "t2"} : SubmitSet(t, TRUE)

SpecCounter == Init /\ [][NextCounter]_vars

\* one admin switching between the views while a browser submits reports; a
\* snapshot reaches a view through a listener it holds
NextViews ==
  \/ ticks < MaxTriageTicks /\ \E d \in {COOLDOWN_DURATION} : Tick(d)
  \/ RoomFor(MaxReports) /\ \E t \in {"t1"}, f \in {"d1"} : SubmitStart(t, f)
  \/ \E t \in {"t1"} : SubmitGet(t, TRUE)
  \/ \E t \in {"t1"}, l \in Locations : SubmitPush(t, l, TRUE)
  \/ \E t \in {"t1"} : SubmitSet(t, TRUE)
  \/ \E a \in {"a1"}, v \in Views : SetActiveView(a, v)
  \/ \E a \in {"a1"} : listeners[a].reportList = 1 /\ ReportListSnapshot(a)
  \/ \E a \in {"a1"} :
       listeners[a].unsubscribeDevices < MaxListeners /\ PanelReportsEvent(a)
  \/ \E a \in {"a1"} :
       /\ activeView[a] = "devices"
       /\ listeners[a].reportsData # << >>
       /\ PanelSnapshot(a)

SpecViews == Init /\ [][NextViews]_vars

\* the pages of two browsers, polling and submitting while the clock stands,
\* against one admin's device panel; the identifier a first call generates is
\* any of the unused ones
NextDevice ==
  \/ \E t \in {"t2"}, f \in UUIDs : CheckStart(t, f)
  \/ \E t \in {"t2"} : CheckGet(t)
  \/ RoomFor(MaxReports) /\ \E t \in Tabs, f \in UUIDs : SubmitStart(t, f)
  \/ \E t \in Tabs : SubmitGet(t, TRUE)
  \/ \E t \in Tabs, l \in Locations : SubmitPush(t, l, TRUE)
  \/ \E t \in Tabs : SubmitSet(t, TRUE)
  \/ \E a \in {"a1"} : PanelSnapshot(a)
  \/ \E a \in {"a1"}, d \in UUIDs : BlockDevice(a, d, TRUE)
  \/ \E a \in {"a1"}, d \in UUIDs : UnblockDevice(a, d, TRUE)
  \/ \E a \in {"a1"} : SweepRead(a, TRUE)
  \/ \E a \in {"a1"} : SweepWrite(a, TRUE)

SpecDevice == Init /\ [][NextDevice]_vars

----------------------------------------------------------------------------
(* Properties of the submission policy *)

\* m = ceil(x / d), stated by its defining inequalities
IsCeil(m, x, d) == m * d >= x /\ (m - 1) * d < x

\* the device of the tab's browser
DeviceOfTab(t) == storage[BrowserOf(t)]

\* C1: a submission whose read finds isBlocked = true ends with DeviceBlocked,
\* whatever the cooldown state of the record, and appends no report.
C1_BlockedAlwaysRejected ==
  [][\A t \in Tabs :
       (/\ SubmitGet(t, TRUE)
        /\ devices[sub[t].deviceId].exists
        /\ devices[sub[t].deviceId].isBlocked)
       => /\ sub'[t].result = "DeviceBlocked"
          /\ sub'[t].pc = "idle"
          /\ reports' = reports]_vars

\* C1 witness: a tab was refused with DeviceBlocked while its device is blocked
\* and still inside its cooldown window.
C1_Witness ==
  \E t \in Tabs :
    /\ sub[t].pc = "idle"
    /\ sub[t].result = "DeviceBlocked"
    /\ DeviceOfTab(t) # NoId
    /\ devices[DeviceOfTab(t)].exists
    /\ devices[DeviceOfTab(t)].isBlocked
    /\ now < devices[DeviceOfTab(t)].cooldownUntil

\* C2 (as claimed): once a device record has isBlocked = true, only an unblock of
\* that device makes it false again.
C2_BlockedUntilUnblock ==
  [][\A d \in UUIDs :
       (/\ devices[d].exists
        /\ devices[d].isBlocked
        /\ ~ \E a \in Admins : UnblockDevice(a, d, TRUE))
       => devices'[d].isBlocked]_vars

\* C3: for a record that exists and is not blocked, the submission is refused with
\* OnCooldown exactly when its now is before cooldownUntil, with
\* waitMinutes = ceil((cooldownUntil - now) / 60000); with no record, or with
\* now at or after cooldownUntil, it goes on to push the report.
C3_CooldownDecision ==
  [][\A t \in Tabs :
       SubmitGet(t, TRUE) =>
         LET snap == devices[sub[t].deviceId] IN
         /\ (snap.exists /\ ~snap.isBlocked /\ sub[t].now < snap.cooldownUntil)
              => /\ sub'[t].result = "OnCooldown"
                 /\ sub'[t].pc = "idle"
                 /\ IsCeil(sub'[t].waitMin, snap.cooldownUntil - sub[t].now, 60000)
         /\ (~snap.exists \/ (~snap.isBlocked /\ sub[t].now >= snap.cooldownUntil))
              => /\ sub'[t].pc = "push"
                 /\ sub'[t].result = "none"]_vars

\* C3 witness: a tab was refused with OnCooldown and told to wait one minute,
\* and a report of the same device was accepted after the cooldown had run out.
C3_Witness ==
  \E t \in Tabs :
    /\ sub[t].result = "OnCooldown"
    /\ sub[t].waitMin = 1
    /\ \E k \in 1..Len(reports) :
         /\ reports[k].deviceId = DeviceOfTab(t)
         /\ reports[k].timestamp >= COOLDOWN_DURATION

\* C4 (as claimed): a checkCooldown that begins after the device's latest accepted
\* submission, at time T, has returned answers from T: on cooldown with
\* ceil((T + COOLDOWN_DURATION - now)/1000) seconds left while
\* now < T + COOLDOWN_DURATION, and not on cooldown from then on.
C4_CheckFollowsLatestAccepted ==
  [][\A t \in Tabs :
       (/\ CheckGet(t)
        /\ cc[t].after # NoTime
        /\ cc[t].after = accepted[cc[t].deviceId]) =>
         LET until == accepted[cc[t].deviceId] + COOLDOWN_DURATION IN
         /\ cc[t].now < until
              => /\ cc'[t].onCooldown
                 /\ IsCeil(cc'[t].remainingSeconds, until - cc[t].now, 1000)
         /\ cc[t].now >= until
              => /\ ~cc'[t].onCooldown
                 /\ cc'[t].remainingSeconds = 0]_vars

\* C4 (amended): while the device record holds the upsert of the submission accepted
\* at T (lastReportTime = T), checkCooldown answers from T as above.
C4_CheckFollowsStoredUpsert ==
  [][\A t \in Tabs :
       (CheckGet(t) /\ devices[cc[t].deviceId].exists) =>
         LET until == devices[cc[t].deviceId].lastReportTime + COOLDOWN_DURATION IN
         /\ cc[t].now < until
              => /\ cc'[t].onCooldown
                 /\ IsCeil(cc'[t].remainingSeconds, until - cc[t].now, 1000)
         /\ cc[t].now >= until
              => /\ ~cc'[t].onCooldown
                 /\ cc'[t].remainingSeconds = 0]_vars

\* C4 witness: right after an accepted submission the poll answered "on cooldown,
\* ceil(COOLDOWN_DURATION / 1000) seconds left".
C4_Witness ==
  \E t \in Tabs :
    /\ cc[t].pc = "idle"
    /\ cc[t].onCooldown
    /\ cc[t].remainingSeconds * 1000 = COOLDOWN_DURATION
    /\ DeviceOfTab(t) # NoId
    /\ accepted[DeviceOfTab(t)] # NoTime
    /\ devices[DeviceOfTab(t)].lastReportTime = accepted[DeviceOfTab(t)]

\* two stored reports of one device closer together than the cooldown
InOneWindow(i, j) ==
  /\ i # j
  /\ reports[i].deviceId = reports[j].deviceId
  /\ reports[i].timestamp <= reports[j].timestamp
  /\ reports[j].timestamp - reports[i].timestamp < COOLDOWN_DURATION

\* C5: two reports of one device inside one cooldown window exist only when the
\* later submission read the device record without the earlier one's upsert in it.
C5_WindowOnlyByStaleRead ==
  \A i, j \in 1..Len(reports) :
    InOneWindow(i, j) => origin[j] < reports[i].timestamp + COOLDOWN_DURATION

\* C5 witness: two submissions of one device both read the record before any upsert
\* had landed, both returned normally, and their reports lie in one cooldown window.
C5_Witness ==
  \E i, j \in 1..Len(reports) :
    /\ InOneWindow(i, j)
    /\ origin[i] = 0
    /\ origin[j] = 0
    /\ \A t \in {"t1", "t2"} : sub[t].pc = "idle" /\ sub[t].result = "Ok"
    /\ devices[reports[i].deviceId].exists

----------------------------------------------------------------------------
(* Properties of the admin views *)

\* the reports of the admin's list that a resolve invoked on report k selects
SelectedForResolve(a, k) ==
  {j \in 1..Len(reports) :
     \E p \in 1..Len(view[a]) :
       /\ view[a][p].id = j
       /\ view[a][p].deviceId = Find(view[a], k).deviceId
       /\ view[a][p].status \in {"active", "responded"}}

\* C6: a resolve invoked on a report of the list, once written, leaves every report
\* of the list that shares its deviceId and was active or responded with
\* status resolved, no location and a responseTime, and leaves the reports of
\* every other device as they were.
C6_ResolveCascade ==
  [][\A a \in Admins, k \in 1..Len(reports) :
       (InView(view[a], k) /\ HandleRespond(a, k, "resolved", TRUE)) =>
         \A j \in 1..Len(reports) :
           /\ j \in SelectedForResolve(a, k)
                => /\ reports'[j].status = "resolved"
                   /\ reports'[j].location = NoLocation
                   /\ reports'[j].responseTime # NoTime
           /\ reports[j].deviceId # Find(view[a], k).deviceId
                => reports'[j] = reports[j]]_vars

\* C6 witness: two reports of one device, submitted at different times, were
\* resolved by one write (their responseTime ends at the same instant).
C6_Witness ==
  \E i, j \in 1..Len(reports) :
    /\ reports[i].deviceId = reports[j].deviceId
    /\ reports[i].timestamp < reports[j].timestamp
    /\ reports[i].status = "resolved" /\ reports[j].status = "resolved"
    /\ reports[i].location = NoLocation /\ reports[j].location = NoLocation
    /\ reports[i].responseTime # NoTime /\ reports[j].responseTime # NoTime
    /\ reports[i].timestamp + reports[i].responseTime
         = reports[j].timestamp + reports[j].responseTime

\* C7 (as claimed): a respond never changes a stored report that is already
\* responded or resolved.
C7_RespondLeavesRespondedAlone ==
  [][\A a \in Admins, k \in 1..Len(reports) :
       (InView(view[a], k) /\ HandleRespond(a, k, "responded", TRUE)) =>
         \A j \in 1..Len(reports) :
           reports[j].status \in {"responded", "resolved"} => reports'[j] = reports[j]]_vars

\* the step on which a handleBlock of admin a ends with "Device blocked successfully"
BlockCompletes(a) ==
  /\ blk[a].op = "block"
  /\ \/ SweepWrite(a, TRUE)
     \/ SweepRead(a, TRUE) /\ blk'[a].pc = "idle"

\* C8 (as claimed): when block(D) ends successfully, D's record has isBlocked = true,
\* every report of D that the sweep read is blocked, and the reports of other
\* devices are unchanged.
C8_BlockCompletesBlocked ==
  [][\A a \in Admins :
       BlockCompletes(a) =>
         /\ devices'[blk[a].deviceId].isBlocked
         /\ \A j \in 1..Len(reports) :
              /\ j \in blk[a].updates => reports'[j].status = "blocked"
              /\ reports[j].deviceId # blk[a].deviceId => reports'[j] = reports[j]]_vars

\* C9 (as claimed): the sweep of unblock(D) rewrites only reports of D that are
\* blocked, to active, and a report of D that was resolved when D was blocked is
\* resolved again once unblock(D) has run.
C9_UnblockKeepsResolved ==
  [][\A a \in Admins :
       (blk[a].op = "unblock" /\ SweepWrite(a, TRUE)) =>
         \A j \in 1..Len(reports) :
           /\ reports'[j] # reports[j]
                => /\ reports[j].deviceId = blk[a].deviceId
                   /\ j \in blk[a].updates
                   /\ reports'[j].status = "active"
           /\ (j \in resolvedAtBlock /\ reports[j].deviceId = blk[a].deviceId)
                => reports'[j].status = "resolved"]_vars

\* C10: initiating respond or resolve with more than one eligible report of the
\* device writes nothing and enters the confirmation state, and "No" writes
\* nothing; with at most one eligible report the write is issued at once and no
\* confirmation state is entered.
C10_ConfirmBeforeCascade ==
  [][\A a \in Admins :
       /\ \A k \in 1..Len(reports), act \in {"respond", "resolve"}, ok \in BOOLEAN :
            InitiateAction(a, k, act, ok) =>
              LET rel == RelatedReports(view[a], k, StatusOf(act)) IN
              IF Cardinality(rel) > 1
                THEN /\ reports' = reports
                     /\ confirm'[a] = [reportId |-> k, action |-> act]
                ELSE /\ confirm'[a] = NoConfirm
                     /\ ok => \A r \in rel : reports'[r.id].status = StatusOf(act)
       /\ ConfirmNo(a) => reports' = reports /\ confirm'[a] = NoConfirm]_vars

\* C10 witness: an admin is being asked to confirm a cascade over two reports of
\* a device, and both are still active in the store.
C10_Witness ==
  \E a \in Admins :
    /\ confirm[a] # NoConfirm
    /\ Cardinality(RelatedReports(view[a], confirm[a].reportId,
                                  StatusOf(confirm[a].action))) > 1
    /\ \A r \in RelatedReports(view[a], confirm[a].reportId, StatusOf(confirm[a].action)) :
         reports[r.id].status = "active"

----------------------------------------------------------------------------
(* Properties of the stored reports and device records *)

\* the report ids a cascade to `status` invoked by admin a on report k selects
SelectedIds(a, k, status) == {r.id : r \in RelatedReports(view[a], k, status)}

\* C11: a respond or resolve cascade is one write: the step of handleRespond
\* leaves either every report it selected with the new status or, when the
\* write is rejected, the reports collection as it was; no step gives the new
\* status to some of the selected reports only.
C11_CascadeIsOneWrite ==
  [][\A a \in Admins, k \in 1..Len(reports), status \in {"responded", "resolved"},
        ok \in BOOLEAN :
       (InView(view[a], k) /\ HandleRespond(a, k, status, ok)) =>
         \/ reports' = reports /\ (ok => SelectedIds(a, k, status) = {})
         \/ ok /\ \A j \in SelectedIds(a, k, status) : reports'[j].status = status]_vars

\* C11 witness: two reports of one device, submitted at different times, were
\* marked responded by one write.
C11_Witness ==
  \E i, j \in 1..Len(reports) :
    /\ reports[i].deviceId = reports[j].deviceId
    /\ reports[i].timestamp < reports[j].timestamp
    /\ reports[i].status = "responded" /\ reports[j].status = "responded"
    /\ reports[i].timestamp + reports[i].responseTime
         = reports[j].timestamp + reports[j].responseTime

\* the status changes the lifecycle of a report allows
AllowedChange(old, new) ==
  \/ old = "active" /\ new \in {"responded", "resolved"}
  \/ old = "responded" /\ new = "resolved"
  \/ new = "blocked"
  \/ old = "blocked" /\ new = "active"

\* C12 (as claimed): every change of a stored report's status is active to
\* responded, active or responded to resolved, anything to blocked, or blocked to
\* active; none goes from resolved back to responded or from responded to active.
C12_StatusChangesAllowed ==
  [][\A j \in 1..Len(reports) :
       reports'[j].status # reports[j].status
         => AllowedChange(reports[j].status, reports'[j].status)]_vars

\* C13: a stored report whose status is resolved has no location.
C13_ResolvedHasNoLocation ==
  \A k \in 1..Len(reports) :
    reports[k].status = "resolved" => reports[k].location = NoLocation

\* C13 witness: a resolved report without location next to a later report of the
\* same device that is still active and located.
C13_Witness ==
  \E i, j \in 1..Len(reports) :
    /\ i < j
    /\ reports[i].deviceId = reports[j].deviceId
    /\ reports[i].status = "resolved" /\ reports[i].location = NoLocation
    /\ reports[j].status = "active" /\ reports[j].location # NoLocation

\* C14 (as claimed): a stored report whose status is active or responded has a
\* location, whatever resolve, block and unblock actions have run.
C14_OpenHasLocation ==
  \A k \in 1..Len(reports) :
    reports[k].status \in {"active", "responded"} => reports[k].location # NoLocation

\* C15 (as claimed): no respond or resolve write changes the stored status of a
\* report that is blocked in the store, and none stores the status blocked.
C15_BlockedOnlyByDevicePanel ==
  [][\A a \in Admins, k \in 1..Len(reports), status \in {"responded", "resolved"} :
       (InView(view[a], k) /\ HandleRespond(a, k, status, TRUE)) =>
         \A j \in 1..Len(reports) :
           /\ reports[j].status = "blocked" => reports'[j].status = "blocked"
           /\ reports[j].status # "blocked" => reports'[j].status # "blocked"]_vars

\* C16: every device record has cooldownUntil = lastReportTime +
\* COOLDOWN_DURATION after every step, and the steps of block and unblock leave
\* both fields of every record as they were.
C16_CooldownFollowsLastReport ==
  [][/\ \A d \in UUIDs :
          devices'[d].exists
            => devices'[d].cooldownUntil = devices'[d].lastReportTime + COOLDOWN_DURATION
     /\ \A a \in Admins :
          (\E d \in UUIDs, ok \in BOOLEAN :
             \/ BlockDevice(a, d, ok) \/ UnblockDevice(a, d, ok)
             \/ SweepRead(a, ok) \/ SweepWrite(a, ok))
          => \A d \in UUIDs :
               /\ devices'[d].exists = devices[d].exists
               /\ devices[d].exists
                    => /\ devices'[d].cooldownUntil = devices[d].cooldownUntil
                       /\ devices'[d].lastReportTime = devices[d].lastReportTime]_vars

\* C16 witness: a device whose record was written by two submissions at different
\* times has been blocked.
C16_Witness ==
  \E d \in UUIDs :
    /\ devices[d].exists
    /\ devices[d].totalReports = 2
    /\ devices[d].lastReportTime > 0
    /\ devices[d].isBlocked
    /\ devices[d].blockedAt # NoTime

\* C17 (as claimed): no store write lowers the totalReports of a device record.
C17_TotalReportsNeverDecreases ==
  [][\A d \in UUIDs :
       devices[d].exists
         => /\ devices'[d].exists
            /\ devices'[d].totalReports >= devices[d].totalReports]_vars

----------------------------------------------------------------------------
(* Properties of the views' subscriptions *)

\* C18 (as claimed): a view that is not on display holds no listener on the
\* reports or devices collection, however many snapshots it was given.
C18_NoListenerAfterUnmount ==
  \A a \in Admins :
    /\ activeView[a] # "reports" => listeners[a].reportList = 0
    /\ activeView[a] # "devices"
         => /\ listeners[a].unsubscribeReports = 0
            /\ listeners[a].unsubscribeDevices = 0

----------------------------------------------------------------------------
(* Properties of failed admin writes *)

\* a step on which a store operation of one of admin a's handlers is rejected
FailedStep(a) ==
  \/ \E k \in 1..Len(reports), status \in {"responded", "resolved"} :
       InView(view[a], k) /\ HandleRespond(a, k, status, FALSE)
  \/ \E d \in UUIDs : BlockDevice(a, d, FALSE) \/ UnblockDevice(a, d, FALSE)
  \/ SweepRead(a, FALSE)
  \/ SweepWrite(a, FALSE)

\* C19 (as claimed): when a block or unblock ends in a failed write, the device's
\* isBlocked is what it was when the handler was invoked, and no report changed.
C19_FailureRestoresStore ==
  [][\A a \in Admins :
       SweepWrite(a, FALSE) =>
         /\ devices'[blk[a].deviceId].isBlocked = blk[a].before.isBlocked
         /\ reports' = reports]_vars

\* C19 (amended): the step on which an admin handler's store operation fails
\* writes nothing and ends the handler, and nothing is retried; the device
\* write a block or unblock made before a failing sweep stays as written.
C19_FailedStepWritesNothing ==
  [][\A a \in Admins :
       FailedStep(a) =>
         /\ devices' = devices
         /\ reports' = reports
         /\ blk'[a].pc = "idle"
         /\ confirm'[a] = NoConfirm
         /\ blk[a].pc # "idle" => blk'[a].outcome = "failed"]_vars

\* C19 witness: a block has ended in a failure after its device write: the
\* device is blocked and one of its reports is still active.
C19_Witness ==
  \E a \in Admins, d \in UUIDs :
    /\ blk[a].pc = "idle"
    /\ blk[a].outcome = "failed"
    /\ devices[d].exists
    /\ devices[d].isBlocked
    /\ \E k \in 1..Len(reports) :
         reports[k].deviceId = d /\ reports[k].status = "active"

----------------------------------------------------------------------------
(* Properties of responseTime *)

\* C20 (as claimed): a resolve leaves the responseTime of a report that already
\* has one (a responded report) as the respond action recorded it.
C20_ResolveKeepsResponseTime ==
  [][\A a \in Admins, k \in 1..Len(reports) :
       (InView(view[a], k) /\ HandleRespond(a, k, "resolved", TRUE)) =>
         \A j \in 1..Len(reports) :
           (reports[j].status = "responded" /\ reports[j].responseTime # NoTime)
             => reports'[j].responseTime = reports[j].responseTime]_vars

----------------------------------------------------------------------------
(* Properties of the device identifier *)

\* what a call of getDeviceId in browser b that returned id did to localStorage
Persisted(b, id) ==
  /\ id # NoId
  /\ storage'[b] = id
  /\ \A c \in Browsers \ {b} : storage'[c] = storage[c]
  /\ storage[b] # NoId => id = storage[b] /\ storage' = storage

\* C21: the first getDeviceId of a browser generates an identifier and persists
\* it; every later call in that browser returns the persisted identifier and
\* writes nothing to localStorage; and no other step changes localStorage.
C21_DeviceIdPersisted ==
  [][/\ \A t \in Tabs, f \in UUIDs :
          /\ SubmitStart(t, f) => Persisted(BrowserOf(t), sub'[t].deviceId)
          /\ CheckStart(t, f) => Persisted(BrowserOf(t), cc'[t].deviceId)
     /\ \A b \in Browsers : storage[b] # NoId => storage'[b] = storage[b]]_vars

\* C21 witness: two pages of one browser hold the same identifier from two
\* calls, and a page of another browser holds a different one.
C21_Witness ==
  /\ sub["t1"].pc = "get" /\ cc["t2"].pc = "get"
  /\ sub["t1"].deviceId = storage["b1"]
  /\ cc["t2"].deviceId = storage["b1"]
  /\ sub["t3"].pc = "get"
  /\ sub["t3"].deviceId = storage["b2"]
  /\ storage["b2"] # storage["b1"]

----------------------------------------------------------------------------
(* Properties of the device table *)

\* the positions of the reports of device d in a reports collection
ReportsOf(reportsData, d) == {k \in 1..Len(reportsData) : reportsData[k].deviceId = d}

\* shown is, report for report, the reports of device d in reportsData
ExactlyReportsOf(shown, reportsData, d) ==
  \E f \in [1..Len(shown) -> 1..Len(reportsData)] :
    /\ \A p \in 1..Len(shown) : shown[p] = reportsData[f[p]]
    /\ \A p, q \in 1..Len(shown) : p # q => f[p] # f[q]
    /\ {f[p] : p \in 1..Len(shown)} = ReportsOf(reportsData, d)

\* the rows tbl list the devices of devicesData, each with its reports of
\* reportsData and their number
ShowsJoin(tbl, devicesData, reportsData) ==
  \A d \in UUIDs :
    /\ tbl[d].listed <=> devicesData[d].exists
    /\ tbl[d].listed
         => /\ ExactlyReportsOf(tbl[d].reports, reportsData, d)
            /\ tbl[d].totalReports = Cardinality(ReportsOf(reportsData, d))

\* C22: after a devices snapshot is delivered to the device panel, it lists
\* exactly the devices of that snapshot, each with exactly the reports of the
\* reports snapshot last delivered that carry its id, and with totalReports the
\* number of those reports; after a reports snapshot is delivered, the devices
\* listed are those listed before and their reports and totalReports are those
\* of the new snapshot.
C22_TableJoinsLatestSnapshots ==
  [][\A a \in Admins :
       /\ (PanelSnapshot(a) /\ listeners[a].seen.delivered)
            => ShowsJoin(table'[a], devices, listeners[a].seen.value)
       /\ PanelReportsEvent(a)
            => ShowsJoin(table'[a], [d \in UUIDs |-> table[a][d].device], reports)]_vars

\* C22 witness: the panel has registered two devices listeners, and lists a device
\* with two reports and totalReports 2 while the stored counter of the device is 1.
C22_Witness ==
  \E a \in Admins, d \in UUIDs :
    /\ Len(listeners[a].reportsData) = 2
    /\ table[a][d].listed
    /\ Len(table[a][d].reports) = 2
    /\ table[a][d].totalReports = 2
    /\ devices[d].totalReports = 1

----------------------------------------------------------------------------
(* Properties relating reports to their device records *)

\* no submission and no admin handler is between two of its store operations
\* (respond and resolve are one step each)
NothingInFlight ==
  /\ \A t \in Tabs : sub[t].pc = "idle"
  /\ \A a \in Admins : blk[a].pc = "idle"

\* C23 (as claimed): whenever no operation is in flight (and no block or unblock
\* has just ended in a failure), a stored report is blocked exactly when the
\* record of its device has isBlocked = true.
C23_BlockedIffDeviceBlocked ==
  (NothingInFlight /\ \A a \in Admins : blk[a].outcome # "failed")
    => \A k \in 1..Len(reports) :
         reports[k].status = "blocked" <=> devices[reports[k].deviceId].isBlocked

----------------------------------------------------------------------------
(* Properties of refused submissions and of the cooldown poll *)

\* the record a submission read at time t makes it a refused one
Refuses(snap, t) == snap.exists /\ (snap.isBlocked \/ t < snap.cooldownUntil)

\* C24: a submission refused with DeviceBlocked or OnCooldown ends at its read
\* and has written nothing to the store (no report appended, no device record
\* changed), and no step of checkCooldown writes to the store.
C24_RefusedWritesNothing ==
  [][\A t \in Tabs :
       /\ (\E f \in UUIDs : SubmitStart(t, f) \/ CheckStart(t, f)) \/ CheckGet(t)
            => devices' = devices /\ reports' = reports
       /\ (SubmitGet(t, TRUE) /\ Refuses(devices[sub[t].deviceId], sub[t].now))
            => /\ sub'[t].result \in {"DeviceBlocked", "OnCooldown"}
               /\ sub'[t].pc = "idle"
               /\ devices' = devices
               /\ reports' = reports]_vars

\* C24 witness: of three submissions of one device, one page was refused with
\* OnCooldown and another with DeviceBlocked, a poll answered "on cooldown", and
\* the store holds the one report and the one upsert of the accepted submission.
C24_Witness ==
  \E t, u \in Tabs :
    /\ BrowserOf(t) = BrowserOf(u)
    /\ sub[t].pc = "idle" /\ sub[t].result = "OnCooldown"
    /\ sub[u].pc = "idle" /\ sub[u].result = "DeviceBlocked"
    /\ cc["t2"].pc = "idle" /\ cc["t2"].onCooldown
    /\ Len(reports) = 1
    /\ devices[reports[1].deviceId].totalReports = 1
    /\ devices[reports[1].deviceId].lastReportTime = reports[1].timestamp

----------------------------------------------------------------------------
(* Properties of the stored report counter *)

\* C25 (as claimed): whenever no submission is in flight, the totalReports of
\* every device record is the number of stored reports with that deviceId, and
\* a device without a record has no stored report.
C25_TotalReportsIsCount ==
  (\A t \in Tabs : sub[t].pc = "idle")
    => \A d \in UUIDs :
         Cardinality({k \in 1..Len(reports) : reports[k].deviceId = d})
           = IF devices[d].exists THEN devices[d].totalReports ELSE 0

====
